---- MODULE Spec2Model ----
(***************************************************************************)
(* Verification model of the utilities under releases/41_blackbird/util:   *)
(*   add_uf2_erase_block.py  (Spec)        UF2 image extension tool        *)
(*   raw_serial.py           (SerialSpec)  serial console, reader thread   *)
(*   lua2header.py           (LuaSpec)     luac fallback chain             *)
(* Files are modelled as sequences of bytes (0..255).  A 32-bit unsigned   *)
(* value is a pair <<hi, lo>> of 16-bit words, so that values above 2^31   *)
(* (0x9E5D5157, 0xe48bff56) stay exact; struct.pack_into("<I") lays such a *)
(* value out as four little-endian bytes.                                  *)
(***************************************************************************)
EXTENDS Integers, Sequences, FiniteSets, TLC

VARIABLES
    \* ---- add_uf2_erase_block.py
    pc,                  \* position of the tool run
    argc,                \* len(sys.argv)
    input_readable,      \* whether open(input_path, 'rb') succeeds
    input_file,          \* bytes of the file at input_path
    output_file,         \* bytes of the file at output_path
    original_data,       \* modify_uf2: f.read()
    original_blocks,     \* modify_uf2: len(original_data) // 512
    total_blocks,        \* modify_uf2: original_blocks + erase_blocks_needed
    blocks,              \* modify_uf2: list of 512-byte blocks
    i,                   \* modify_uf2: number of blocks written to the output
    \* ---- raw_serial.py
    mpc,                 \* position of main
    rpc,                 \* position of the reader thread (read_serial)
    locals_,             \* names bound in main's frame: 'ser', 'stop_event', 'reader_thread'
    propagate,           \* an exception raised in an except clause awaits the end of finally
    stop_event,          \* threading.Event flag
    ser_open,            \* ser.is_open
    device_ok,           \* the device is attached and answering
    in_waiting,          \* bytes waiting in the port's receive buffer
    rx_n,                \* value of ser.in_waiting the reader passes to ser.read
    err_cause,           \* why the exception the reader caught was raised
    read_error,          \* cause of the "Read error" line printed, "none" if none was
    inputs_left,         \* console lines the user will still type
    \* ---- lua2header.py
    lpc,                 \* position inside compile_lua_to_bytecode
    cand,                \* index into luac_candidates of the running attempt
    luac_behaviour,      \* what running each candidate does
    lua_source,          \* bytes of the Lua file
    tmp_files,           \* temporary .lc files present on disk
    tmp_name,            \* tmp.name of the running attempt
    tmp_created,         \* number of temporary files created so far
    lc_data,             \* bytes luac wrote to the temporary file
    pending,             \* what the finally clause resumes: return, continue or raise
    tried,               \* candidates handed to subprocess.run, in order
    result               \* return value of compile_lua_to_bytecode

uf2vars == <<pc, argc, input_readable, input_file, output_file, original_data,
             original_blocks, total_blocks, blocks, i>>
serialvars == <<mpc, rpc, locals_, propagate, stop_event, ser_open, device_ok,
                in_waiting, rx_n, err_cause, read_error, inputs_left>>
luavars == <<lpc, cand, luac_behaviour, lua_source, tmp_files, tmp_name,
             tmp_created, lc_data, pending, tried, result>>
vars == <<uf2vars, serialvars, luavars>>

(***************************************************************************)
(* Bounds of the model                                                     *)
(***************************************************************************)
MaxBlocks == 2          \* input images hold at most this many whole frames
MaxInputs == 2          \* console lines the user types at most
MaxWaiting == 2         \* bytes the device sends at most
MaxSrcLen == 2          \* length of the Lua source at most

(***************************************************************************)
(* 32-bit values and struct.pack_into / struct.unpack_from ("<I")          *)
(***************************************************************************)
u32(n) == <<n \div 65536, n % 65536>>

pack_u32(v) == <<v[2] % 256, v[2] \div 256, v[1] % 256, v[1] \div 256>>

pack_into(buf, off, v) ==
    [j \in 1..Len(buf) |->
        IF j > off /\ j <= off + 4 THEN pack_u32(v)[j - off] ELSE buf[j]]

unpack_from(buf, off) ==
    <<buf[off + 4] * 256 + buf[off + 3], buf[off + 2] * 256 + buf[off + 1]>>

(***************************************************************************)
(* add_uf2_erase_block.py                                                  *)
(***************************************************************************)
UF2_MAGIC_START0 == <<2610, 18005>>      \* 0x0A32 4655
UF2_MAGIC_START1 == <<40541, 20823>>     \* 0x9E5D 5157
UF2_MAGIC_END == <<2737, 28464>>         \* 0x0AB1 6F30
RP2040_FAMILY_ID == <<58507, 65366>>     \* 0xe48b ff56
FAMILY_ID_PRESENT == 8192                \* 0x2000
FLASH_BASE == 268435456                  \* 0x10000000
USER_SCRIPT_OFFSET == (2 * 1024 * 1024) - (16 * 1024)
USER_SCRIPT_SIZE == 16 * 1024
BLOCK_SIZE == 256
FRAME_SIZE == 512

\* bytearray(512)
bytearray(n) == [j \in 1..n |-> 0]

\* for i in range(BLOCK_SIZE): block[32 + i] = 0xFF
fill_erased(block) ==
    [j \in 1..Len(block) |->
        IF j - 1 >= 32 /\ j - 1 < 32 + BLOCK_SIZE THEN 255 ELSE block[j]]

create_erase_block_short_fill(target_addr, block_num, total) ==
    LET b0 == bytearray(FRAME_SIZE)
        b1 == pack_into(b0, 0, UF2_MAGIC_START0)
        b2 == pack_into(b1, 4, UF2_MAGIC_START1)
        b3 == pack_into(b2, 8, u32(FAMILY_ID_PRESENT))
        b4 == pack_into(b3, 12, u32(target_addr))
        b5 == pack_into(b4, 16, u32(BLOCK_SIZE))
        b6 == pack_into(b5, 20, u32(block_num))
        b7 == pack_into(b6, 24, u32(total))
        b8 == pack_into(b7, 28, RP2040_FAMILY_ID)
        b9 == [j \in 1..FRAME_SIZE |->
                 IF j - 1 >= 32 /\ j - 1 < 32 + BLOCK_SIZE - 1 THEN 255 ELSE b8[j]]
    IN  pack_into(b9, FRAME_SIZE - 4, UF2_MAGIC_END)

create_erase_block(target_addr, block_num, total) ==
    LET b0 == bytearray(FRAME_SIZE)
        b1 == pack_into(b0, 0, UF2_MAGIC_START0)
        b2 == pack_into(b1, 4, UF2_MAGIC_START1)
        b3 == pack_into(b2, 8, u32(FAMILY_ID_PRESENT))
        b4 == pack_into(b3, 12, u32(target_addr))
        b5 == pack_into(b4, 16, u32(BLOCK_SIZE))
        b6 == pack_into(b5, 20, u32(block_num))
        b7 == pack_into(b6, 24, u32(total))
        b8 == pack_into(b7, 28, RP2040_FAMILY_ID)
        b9 == fill_erased(b8)
    IN  pack_into(b9, FRAME_SIZE - 4, UF2_MAGIC_END)

\* erase_blocks_needed = USER_SCRIPT_SIZE // BLOCK_SIZE
erase_blocks_needed == USER_SCRIPT_SIZE \div BLOCK_SIZE

count_total_forgets_erase(n_original) == n_original

\* total_blocks = original_blocks + erase_blocks_needed
count_total(n_original) == n_original + erase_blocks_needed

update_block_clobbers_address(data, k, total) ==
    pack_into(SubSeq(data, k * 512 + 1, (k + 1) * 512), 12, u32(total))

\* block = bytearray(original_data[i*512:(i+1)*512]); pack_into("<I", block, 24, total_blocks)
update_block(data, k, total) ==
    pack_into(SubSeq(data, k * 512 + 1, (k + 1) * 512), 24, u32(total))

\* target_addr = 0x10000000 + USER_SCRIPT_OFFSET + (i * BLOCK_SIZE)
erase_target_addr(k) == FLASH_BASE + USER_SCRIPT_OFFSET + (k * BLOCK_SIZE)

(***************************************************************************)
(* Input files of the tool: up to MaxBlocks frames in the UF2 layout, at   *)
(* most one of them unusual (stale counters, a wrong first magic word, or  *)
(* another family), optionally followed by a partial frame.                *)
(***************************************************************************)
RP2350_FAMILY_ID == <<58507, 65369>>     \* 0xe48b ff59, another family
BAD_MAGIC == <<2610, 18004>>
StaleCount == 100
StaleIndex == 7
Variants == {"ok", "stale", "badmagic", "otherfam"}
Residues == {0, 3}
OldOutput == <<1, 2, 3>>

InputFrame(v, p, k) ==
    LET b0 == [j \in 1..FRAME_SIZE |->
                 IF j - 1 >= 32 /\ j - 1 < 32 + BLOCK_SIZE
                 THEN (16 * p + j) % 251 ELSE 0]
        b1 == pack_into(b0, 0, IF v = "badmagic" THEN BAD_MAGIC ELSE UF2_MAGIC_START0)
        b2 == pack_into(b1, 4, UF2_MAGIC_START1)
        b3 == pack_into(b2, 8, u32(FAMILY_ID_PRESENT))
        b4 == pack_into(b3, 12, u32(FLASH_BASE + p * BLOCK_SIZE))
        b5 == pack_into(b4, 16, u32(BLOCK_SIZE))
        b6 == pack_into(b5, 20, u32(IF v = "stale" THEN StaleIndex ELSE p))
        b7 == pack_into(b6, 24, u32(IF v = "stale" THEN StaleCount ELSE k))
        b8 == pack_into(b7, 28, IF v = "otherfam" THEN RP2350_FAMILY_ID
                                ELSE RP2040_FAMILY_ID)
    IN  pack_into(b8, FRAME_SIZE - 4, UF2_MAGIC_END)

RECURSIVE InputFrames(_, _, _, _, _)
\* frames lo..hi (0-based) of an image of k frames whose frame d is of variant v
InputFrames(k, v, d, lo, hi) ==
    IF lo > hi THEN <<>>
    ELSE IF lo = hi THEN InputFrame(IF lo = d THEN v ELSE "ok", lo, k)
    ELSE InputFrames(k, v, d, lo, (lo + hi) \div 2)
         \o InputFrames(k, v, d, (lo + hi) \div 2 + 1, hi)

\* k frames, frame d (0-based) of variant v, then r stray bytes
InputImage(k, v, d, r) == InputFrames(k, v, d, 0, k - 1) \o [j \in 1..r |-> 85]

InputImages ==
    {InputImage(k, "ok", 0, r) : k \in 0..MaxBlocks, r \in Residues}
    \cup UNION {{InputImage(k, v, d, r) : v \in Variants \ {"ok"}, d \in 0..(k - 1)}
                : k \in 1..MaxBlocks, r \in Residues}

UF2Idle ==
    /\ pc = "idle" /\ argc = 0 /\ input_readable = FALSE
    /\ input_file = <<>> /\ output_file = <<>> /\ original_data = <<>>
    /\ original_blocks = 0 /\ total_blocks = 0 /\ blocks = <<>> /\ i = 0

UF2Init ==
    /\ pc = "main"
    /\ \/ argc = 3 /\ input_readable = TRUE /\ input_file \in InputImages
       \/ argc = 3 /\ input_readable = FALSE /\ input_file = <<>>
       \/ argc = 2 /\ input_readable = TRUE /\ input_file = <<>>
    /\ output_file = OldOutput
    /\ original_data = <<>>
    /\ original_blocks = 0
    /\ total_blocks = 0
    /\ blocks = <<>>
    /\ i = 0

\* if len(sys.argv) != 3: usage, sys.exit(1); else modify_uf2(argv[1], argv[2])
Main ==
    /\ pc = "main"
    /\ pc' = IF argc # 3 THEN "usage" ELSE "read"
    /\ UNCHANGED <<argc, input_readable, input_file, output_file, original_data,
                   original_blocks, total_blocks, blocks, i>>
    /\ UNCHANGED <<serialvars, luavars>>

\* with open(input_path, 'rb') as f: original_data = f.read()
ReadInput ==
    /\ pc = "read"
    /\ IF input_readable
       THEN original_data' = input_file /\ pc' = "count"
       ELSE original_data' = original_data /\ pc' = "failed"
    /\ UNCHANGED <<argc, input_readable, input_file, output_file,
                   original_blocks, total_blocks, blocks, i>>
    /\ UNCHANGED <<serialvars, luavars>>

CountBlocks ==
    /\ pc = "count"
    /\ original_blocks' = Len(original_data) \div 512
    /\ total_blocks' = count_total(Len(original_data) \div 512)
    /\ blocks' = <<>>
    /\ i' = 0
    /\ pc' = "copy"
    /\ UNCHANGED <<argc, input_readable, input_file, output_file, original_data>>
    /\ UNCHANGED <<serialvars, luavars>>

\* for i in range(original_blocks): ... blocks.append(bytes(block))
CopyBlocks ==
    /\ pc = "copy"
    /\ blocks' = [k \in 1..original_blocks |->
                     update_block(original_data, k - 1, total_blocks)]
    /\ pc' = "erase"
    /\ UNCHANGED <<argc, input_readable, input_file, output_file,
                   original_data, original_blocks, total_blocks, i>>
    /\ UNCHANGED <<serialvars, luavars>>

\* for i in range(erase_blocks_needed): ... blocks.append(erase_block)
AddEraseBlocks ==
    /\ pc = "erase"
    /\ blocks' = blocks \o
                 [k \in 1..erase_blocks_needed |->
                     create_erase_block(erase_target_addr(k - 1),
                                        original_blocks + (k - 1), total_blocks)]
    /\ pc' = "open"
    /\ UNCHANGED <<argc, input_readable, input_file, output_file,
                   original_data, original_blocks, total_blocks, i>>
    /\ UNCHANGED <<serialvars, luavars>>

\* with open(output_path, 'wb') as f: truncates the file, or raises
OpenOutput ==
    /\ pc = "open"
    /\ \/ output_file' = <<>> /\ i' = 0 /\ pc' = "write"
       \/ output_file' = output_file /\ i' = i /\ pc' = "failed"
    /\ UNCHANGED <<argc, input_readable, input_file, original_data,
                   original_blocks, total_blocks, blocks>>
    /\ UNCHANGED <<serialvars, luavars>>

RECURSIVE concat(_, _, _)
\* the bytes of blocks lo..hi, as the calls of f.write(block) leave them
concat(bs, lo, hi) ==
    IF lo > hi THEN <<>>
    ELSE IF lo = hi THEN bs[lo]
    ELSE concat(bs, lo, (lo + hi) \div 2) \o concat(bs, (lo + hi) \div 2 + 1, hi)

\* for block in blocks: f.write(block); a write may raise after n blocks
WriteBlocks ==
    /\ pc = "write"
    /\ \/ /\ output_file' = concat(blocks, 1, Len(blocks))
          /\ i' = Len(blocks)
          /\ pc' = "written"
       \/ \E n \in 0..(Len(blocks) - 1) :
             /\ output_file' = concat(blocks, 1, n)
             /\ i' = n
             /\ pc' = "failed"
    /\ UNCHANGED <<argc, input_readable, input_file, original_data,
                   original_blocks, total_blocks, blocks>>
    /\ UNCHANGED <<serialvars, luavars>>

\* the file is closed and the two summary lines are printed
Finish ==
    /\ pc = "written"
    /\ pc' = "done"
    /\ UNCHANGED <<argc, input_readable, input_file, output_file, original_data,
                   original_blocks, total_blocks, blocks, i>>
    /\ UNCHANGED <<serialvars, luavars>>

SerialIdle ==
    /\ mpc = "idle" /\ rpc = "idle" /\ locals_ = {} /\ propagate = FALSE
    /\ stop_event = FALSE /\ ser_open = FALSE /\ device_ok = FALSE
    /\ in_waiting = 0 /\ rx_n = 0 /\ err_cause = "none" /\ read_error = "none"
    /\ inputs_left = 0

LuaIdle ==
    /\ lpc = "idle" /\ cand = 0 /\ luac_behaviour = <<>> /\ lua_source = <<>>
    /\ tmp_files = {} /\ tmp_name = 0 /\ tmp_created = 0 /\ lc_data = <<>>
    /\ pending = "none" /\ tried = <<>> /\ result = <<>>

(***************************************************************************)
(* raw_serial.py: main and the reader thread it starts                     *)
(***************************************************************************)
TryPcs == {"open", "mk_event", "mk_thread", "start_thread", "input", "write"}
ExceptPcs == {"except_serial", "except_kbd"}
FinallyPcs == {"fin_set", "fin_join", "fin_close"}

SerialInit ==
    /\ mpc = "open"
    /\ rpc = "unstarted"
    /\ locals_ = {}
    /\ propagate = FALSE
    /\ stop_event = FALSE
    /\ ser_open = FALSE
    /\ device_ok \in BOOLEAN
    /\ in_waiting = 0
    /\ rx_n = 0
    /\ err_cause = "none"
    /\ read_error = "none"
    /\ inputs_left \in 0..MaxInputs

\* ser = serial.Serial(port, 115200, timeout=0.1), or SerialException
OpenPort ==
    /\ mpc = "open"
    /\ IF device_ok
       THEN ser_open' = TRUE /\ locals_' = locals_ \cup {"ser"} /\ mpc' = "mk_event"
       ELSE ser_open' = ser_open /\ locals_' = locals_ /\ mpc' = "except_serial"
    /\ UNCHANGED <<rpc, propagate, stop_event, device_ok, in_waiting, rx_n,
                   err_cause, read_error, inputs_left>>
    /\ UNCHANGED <<uf2vars, luavars>>

\* stop_event = threading.Event()
MakeEvent ==
    /\ mpc = "mk_event"
    /\ locals_' = locals_ \cup {"stop_event"}
    /\ stop_event' = FALSE
    /\ mpc' = "mk_thread"
    /\ UNCHANGED <<rpc, propagate, ser_open, device_ok, in_waiting, rx_n,
                   err_cause, read_error, inputs_left>>
    /\ UNCHANGED <<uf2vars, luavars>>

\* reader_thread = threading.Thread(target=read_serial, ..., daemon=True)
MakeThread ==
    /\ mpc = "mk_thread"
    /\ locals_' = locals_ \cup {"reader_thread"}
    /\ mpc' = "start_thread"
    /\ UNCHANGED <<rpc, propagate, stop_event, ser_open, device_ok, in_waiting,
                   rx_n, err_cause, read_error, inputs_left>>
    /\ UNCHANGED <<uf2vars, luavars>>

\* reader_thread.start()
StartThread ==
    /\ mpc = "start_thread"
    /\ rpc' = "loop"
    /\ mpc' = "input"
    /\ UNCHANGED <<locals_, propagate, stop_event, ser_open, device_ok,
                   in_waiting, rx_n, err_cause, read_error, inputs_left>>
    /\ UNCHANGED <<uf2vars, luavars>>

\* user_input = input(): a line, sent only if it is not empty
ReadLine ==
    /\ mpc = "input"
    /\ inputs_left > 0
    /\ inputs_left' = inputs_left - 1
    /\ \E empty \in BOOLEAN : mpc' = IF empty THEN "input" ELSE "write"
    /\ UNCHANGED <<rpc, locals_, propagate, stop_event, ser_open, device_ok,
                   in_waiting, rx_n, err_cause, read_error>>
    /\ UNCHANGED <<uf2vars, luavars>>

\* input() raises EOFError: break, then the finally clause
EndOfInput ==
    /\ mpc = "input"
    /\ mpc' = "fin_set"
    /\ UNCHANGED <<rpc, locals_, propagate, stop_event, ser_open, device_ok,
                   in_waiting, rx_n, err_cause, read_error, inputs_left>>
    /\ UNCHANGED <<uf2vars, luavars>>

\* ser.write(message.encode('utf-8')), or SerialException
WriteLine ==
    /\ mpc = "write"
    /\ mpc' = IF device_ok THEN "input" ELSE "except_serial"
    /\ UNCHANGED <<rpc, locals_, propagate, stop_event, ser_open, device_ok,
                   in_waiting, rx_n, err_cause, read_error, inputs_left>>
    /\ UNCHANGED <<uf2vars, luavars>>

\* Ctrl+C while main is inside the try body
KeyboardInterruptInTry ==
    /\ mpc \in TryPcs
    /\ mpc' = "except_kbd"
    /\ UNCHANGED <<rpc, locals_, propagate, stop_event, ser_open, device_ok,
                   in_waiting, rx_n, err_cause, read_error, inputs_left>>
    /\ UNCHANGED <<uf2vars, luavars>>

\* except serial.SerialException / except KeyboardInterrupt: one print each
ExceptClause ==
    /\ mpc \in ExceptPcs
    /\ mpc' = "fin_set"
    /\ UNCHANGED <<rpc, locals_, propagate, stop_event, ser_open, device_ok,
                   in_waiting, rx_n, err_cause, read_error, inputs_left>>
    /\ UNCHANGED <<uf2vars, luavars>>

\* Ctrl+C inside an except clause: finally runs, then the exception leaves main
KeyboardInterruptInExcept ==
    /\ mpc \in ExceptPcs
    /\ propagate' = TRUE
    /\ mpc' = "fin_set"
    /\ UNCHANGED <<rpc, locals_, stop_event, ser_open, device_ok, in_waiting,
                   rx_n, err_cause, read_error, inputs_left>>
    /\ UNCHANGED <<uf2vars, luavars>>

\* if 'stop_event' in locals(): stop_event.set()
FinallySet ==
    /\ mpc = "fin_set"
    /\ stop_event' = IF "stop_event" \in locals_ THEN TRUE ELSE stop_event
    /\ mpc' = "fin_join"
    /\ UNCHANGED <<rpc, locals_, propagate, ser_open, device_ok, in_waiting,
                   rx_n, err_cause, read_error, inputs_left>>
    /\ UNCHANGED <<uf2vars, luavars>>

\* if 'reader_thread' in locals(): reader_thread.join(timeout=1)
\* join returns when the reader has finished or after one second, whichever is
\* first; on a thread that was never started it raises RuntimeError
FinallyJoin ==
    /\ mpc = "fin_join"
    /\ mpc' = IF "reader_thread" \in locals_ /\ rpc = "unstarted"
              THEN "raised" ELSE "fin_close"
    /\ UNCHANGED <<rpc, locals_, propagate, stop_event, ser_open, device_ok,
                   in_waiting, rx_n, err_cause, read_error, inputs_left>>
    /\ UNCHANGED <<uf2vars, luavars>>

\* if 'ser' in locals() and ser.is_open: ser.close()
FinallyClose ==
    /\ mpc = "fin_close"
    /\ ser_open' = IF "ser" \in locals_ /\ ser_open THEN FALSE ELSE ser_open
    /\ mpc' = IF propagate THEN "raised" ELSE "returned"
    /\ UNCHANGED <<rpc, locals_, propagate, stop_event, device_ok, in_waiting,
                   rx_n, err_cause, read_error, inputs_left>>
    /\ UNCHANGED <<uf2vars, luavars>>

\* Ctrl+C inside the finally clause: the rest of it is skipped
KeyboardInterruptInFinally ==
    /\ mpc \in FinallyPcs
    /\ mpc' = "raised"
    /\ UNCHANGED <<rpc, locals_, propagate, stop_event, ser_open, device_ok,
                   in_waiting, rx_n, err_cause, read_error, inputs_left>>
    /\ UNCHANGED <<uf2vars, luavars>>

\* main() is over and the interpreter exits: a daemon thread is abandoned
ProcessExit ==
    /\ mpc \in {"returned", "raised"}
    /\ mpc' = "exited"
    /\ rpc' = IF rpc \in {"unstarted", "done"} THEN rpc ELSE "killed"
    /\ UNCHANGED <<locals_, propagate, stop_event, ser_open, device_ok,
                   in_waiting, rx_n, err_cause, read_error, inputs_left>>
    /\ UNCHANGED <<uf2vars, luavars>>

\* the device sends a byte
DeviceSend ==
    /\ mpc # "exited"
    /\ ser_open /\ device_ok
    /\ in_waiting < MaxWaiting
    /\ in_waiting' = in_waiting + 1
    /\ UNCHANGED <<mpc, rpc, locals_, propagate, stop_event, ser_open, device_ok,
                   rx_n, err_cause, read_error, inputs_left>>
    /\ UNCHANGED <<uf2vars, luavars>>

\* the device is unplugged or stops answering
DeviceFail ==
    /\ mpc # "exited"
    /\ ser_open /\ device_ok
    /\ device_ok' = FALSE
    /\ UNCHANGED <<mpc, rpc, locals_, propagate, stop_event, ser_open,
                   in_waiting, rx_n, err_cause, read_error, inputs_left>>
    /\ UNCHANGED <<uf2vars, luavars>>

\* while not stop_event.is_set():
ReaderLoop ==
    /\ rpc = "loop"
    /\ rpc' = IF stop_event THEN "done" ELSE "in_waiting"
    /\ UNCHANGED <<mpc, locals_, propagate, stop_event, ser_open, device_ok,
                   in_waiting, rx_n, err_cause, read_error, inputs_left>>
    /\ UNCHANGED <<uf2vars, luavars>>

\* if ser.in_waiting > 0: the property raises on a closed port or a lost device
ReaderInWaiting ==
    /\ rpc = "in_waiting"
    /\ IF ~ser_open
       THEN err_cause' = "closed" /\ rx_n' = rx_n /\ rpc' = "except"
       ELSE IF ~device_ok
       THEN err_cause' = "device" /\ rx_n' = rx_n /\ rpc' = "except"
       ELSE /\ err_cause' = err_cause
            /\ rx_n' = in_waiting
            /\ rpc' = IF in_waiting > 0 THEN "read" ELSE "sleep"
    /\ UNCHANGED <<mpc, locals_, propagate, stop_event, ser_open, device_ok,
                   in_waiting, read_error, inputs_left>>
    /\ UNCHANGED <<uf2vars, luavars>>

\* data = ser.read(ser.in_waiting)
ReaderRead ==
    /\ rpc = "read"
    /\ IF ~ser_open
       THEN err_cause' = "closed" /\ in_waiting' = in_waiting /\ rpc' = "except"
       ELSE IF ~device_ok
       THEN err_cause' = "device" /\ in_waiting' = in_waiting /\ rpc' = "except"
       ELSE /\ err_cause' = err_cause
            /\ in_waiting' = in_waiting - rx_n
            /\ rpc' = "print"
    /\ UNCHANGED <<mpc, locals_, propagate, stop_event, ser_open, device_ok,
                   rx_n, read_error, inputs_left>>
    /\ UNCHANGED <<uf2vars, luavars>>

\* decode with errors='replace', escape, print(f"RX:  {readable}")
ReaderPrint ==
    /\ rpc = "print"
    /\ rpc' = "sleep"
    /\ UNCHANGED <<mpc, locals_, propagate, stop_event, ser_open, device_ok,
                   in_waiting, rx_n, err_cause, read_error, inputs_left>>
    /\ UNCHANGED <<uf2vars, luavars>>

ReaderExcept_always_prints ==
    /\ rpc = "except"
    /\ read_error' = err_cause
    /\ rpc' = "done"
    /\ UNCHANGED <<mpc, locals_, propagate, stop_event, ser_open, device_ok,
                   in_waiting, rx_n, err_cause, inputs_left>>
    /\ UNCHANGED <<uf2vars, luavars>>

\* except Exception as e: if not stop_event.is_set(): print("Read error"); break
ReaderExcept ==
    /\ rpc = "except"
    /\ read_error' = IF ~stop_event THEN err_cause ELSE read_error
    /\ rpc' = "done"
    /\ UNCHANGED <<mpc, locals_, propagate, stop_event, ser_open, device_ok,
                   in_waiting, rx_n, err_cause, inputs_left>>
    /\ UNCHANGED <<uf2vars, luavars>>

\* time.sleep(0.01)
ReaderSleep ==
    /\ rpc = "sleep"
    /\ rpc' = "loop"
    /\ UNCHANGED <<mpc, locals_, propagate, stop_event, ser_open, device_ok,
                   in_waiting, rx_n, err_cause, read_error, inputs_left>>
    /\ UNCHANGED <<uf2vars, luavars>>

read_serial ==
    ReaderLoop \/ ReaderInWaiting \/ ReaderRead \/ ReaderPrint \/ ReaderExcept
    \/ ReaderSleep

SerialNext ==
    \/ OpenPort
    \/ MakeEvent
    \/ MakeThread
    \/ StartThread
    \/ ReadLine
    \/ EndOfInput
    \/ WriteLine
    \/ KeyboardInterruptInTry
    \/ ExceptClause
    \/ KeyboardInterruptInExcept
    \/ FinallySet
    \/ FinallyJoin
    \/ FinallyClose
    \/ KeyboardInterruptInFinally
    \/ ProcessExit
    \/ DeviceSend
    \/ DeviceFail
    \/ ReaderLoop
    \/ ReaderInWaiting
    \/ ReaderRead
    \/ ReaderPrint
    \/ ReaderExcept
    \/ ReaderSleep

\* the reader thread is scheduled as long as it can take a step: none of its
\* calls blocks (the port has timeout=0.1, the sleep is 10 ms)
SerialSpecInit == UF2Idle /\ SerialInit /\ LuaIdle

SerialSpec == SerialSpecInit /\ [][SerialNext]_vars /\ WF_vars(read_serial)

(***************************************************************************)
(* lua2header.py: compile_lua_to_bytecode                                  *)
(***************************************************************************)
\* luac_candidates = [str(host_luac), str(build_luac)]
luac_candidates == <<"host_luac", "build_luac">>

\* what subprocess.run([luac_cmd, '-o', tmp.name, lua_file], check=True) does:
\* "ok" writes the bytecode, "missing" raises FileNotFoundError, "fails" raises
\* CalledProcessError, "denied" raises PermissionError
Behaviours == {"ok", "missing", "fails", "denied"}
CaughtBehaviours == {"missing", "fails"}

\* the bytes candidate c writes for a source: the Lua signature byte, a byte
\* that tells the two compilers' outputs apart, then the chunk
Bytecode(c, src) == <<27, c>> \o src

SourceBytes == {45, 10}
LuaSources == UNION {[1..n -> SourceBytes] : n \in 0..MaxSrcLen}

LuaInit ==
    /\ lpc = "for"
    /\ cand = 0
    /\ luac_behaviour \in [1..Len(luac_candidates) -> Behaviours]
    /\ lua_source \in LuaSources
    /\ tmp_files = {}
    /\ tmp_name = 0
    /\ tmp_created = 0
    /\ lc_data = <<>>
    /\ pending = "none"
    /\ tried = <<>>
    /\ result = <<>>

\* for luac_cmd in luac_candidates: the index after c (0 before the loop)
next_candidate(c) == c + 1

\* the loop takes its next candidate, or is exhausted
ForCandidate ==
    /\ lpc = "for"
    /\ cand' = next_candidate(cand)
    /\ lpc' = IF next_candidate(cand) \in 1..Len(luac_candidates)
              THEN "mktemp" ELSE "fallback"
    /\ UNCHANGED <<luac_behaviour, lua_source, tmp_files, tmp_name, tmp_created,
                   lc_data, pending, tried, result>>
    /\ UNCHANGED <<uf2vars, serialvars>>

\* with tempfile.NamedTemporaryFile(suffix='.lc', delete=False) as tmp:
MakeTemp ==
    /\ lpc = "mktemp"
    /\ tmp_created' = tmp_created + 1
    /\ tmp_name' = tmp_created + 1
    /\ tmp_files' = tmp_files \cup {tmp_created + 1}
    /\ lc_data' = <<>>
    /\ lpc' = "run"
    /\ UNCHANGED <<cand, luac_behaviour, lua_source, pending, tried, result>>
    /\ UNCHANGED <<uf2vars, serialvars>>

\* subprocess.run([luac_cmd, '-o', tmp.name, lua_file], check=True, ...)
RunLuac ==
    /\ lpc = "run"
    /\ tried' = Append(tried, luac_candidates[cand])
    /\ IF luac_behaviour[cand] = "ok"
       THEN /\ lc_data' = Bytecode(cand, lua_source)
            /\ pending' = pending
            /\ lpc' = "read"
       ELSE /\ lc_data' = lc_data
            /\ pending' = IF luac_behaviour[cand] \in CaughtBehaviours
                          THEN "continue" ELSE "raise"
            /\ lpc' = "finally"
    /\ UNCHANGED <<cand, luac_behaviour, lua_source, tmp_files, tmp_name,
                   tmp_created, result>>
    /\ UNCHANGED <<uf2vars, serialvars>>

\* with open(tmp.name, 'rb') as f: print(...); return f.read()
ReadBytecode ==
    /\ lpc = "read"
    /\ result' = lc_data
    /\ pending' = "return"
    /\ lpc' = "finally"
    /\ UNCHANGED <<cand, luac_behaviour, lua_source, tmp_files, tmp_name,
                   tmp_created, lc_data, tried>>
    /\ UNCHANGED <<uf2vars, serialvars>>

unlink_tmp_skipped(files, name) == files

\* if os.path.exists(tmp.name): os.unlink(tmp.name)
unlink_tmp(files, name) == IF name \in files THEN files \ {name} ELSE files

\* finally: the temporary file is removed; then the return, the continue
\* (except (FileNotFoundError, CalledProcessError)) or the raise goes on
FinallyUnlink ==
    /\ lpc = "finally"
    /\ tmp_files' = unlink_tmp(tmp_files, tmp_name)
    /\ lpc' = CASE pending = "return" -> "returned"
                [] pending = "continue" -> "for"
                [] OTHER -> "raised"
    /\ UNCHANGED <<cand, luac_behaviour, lua_source, tmp_name, tmp_created,
                   lc_data, pending, tried, result>>
    /\ UNCHANGED <<uf2vars, serialvars>>

\* every attempt failed: the Lua source is read and returned as it is
Fallback ==
    /\ lpc = "fallback"
    /\ result' = lua_source
    /\ lpc' = "returned"
    /\ UNCHANGED <<cand, luac_behaviour, lua_source, tmp_files, tmp_name,
                   tmp_created, lc_data, pending, tried>>
    /\ UNCHANGED <<uf2vars, serialvars>>

LuaNext ==
    \/ ForCandidate
    \/ MakeTemp
    \/ RunLuac
    \/ ReadBytecode
    \/ FinallyUnlink
    \/ Fallback

LuaSpecInit == UF2Idle /\ SerialIdle /\ LuaInit

LuaSpec == LuaSpecInit /\ [][LuaNext]_vars

Init == UF2Init /\ SerialIdle /\ LuaIdle

Next ==
    \/ Main
    \/ ReadInput
    \/ CountBlocks
    \/ CopyBlocks
    \/ AddEraseBlocks
    \/ OpenOutput
    \/ WriteBlocks
    \/ Finish

Spec == Init /\ [][Next]_vars

(***************************************************************************)
(* Claims about add_uf2_erase_block.py, checked under Spec                 *)
(***************************************************************************)
InFrame(n) == SubSeq(input_file, n * 512 + 1, (n + 1) * 512)
OutFrame(n) == SubSeq(output_file, n * 512 + 1, (n + 1) * 512)
InBlocks == Len(input_file) \div 512
OutBlocks == Len(output_file) \div 512

\* C1: a finished run on an input of k whole frames leaves an output of exactly
\* k + m frames (m the erase blocks of the reserved range), and output frame
\* n < k equals input frame n in every byte outside the block_index and
\* block_count fields (offsets 20..27): address and payload are unchanged.
C1_ExtensionLength ==
    pc = "done" =>
        /\ Len(output_file) = 512 * (InBlocks + USER_SCRIPT_SIZE \div BLOCK_SIZE)
        /\ \A n \in 0..(InBlocks - 1) :
              \A j \in 1..512 :
                 (j - 1 < 20 \/ j - 1 > 27) => OutFrame(n)[j] = InFrame(n)[j]

C1_Witness ==
    /\ pc = "done"
    /\ InBlocks = MaxBlocks
    /\ OutBlocks = MaxBlocks + 64
    /\ unpack_from(OutFrame(0), 24) # unpack_from(InFrame(0), 24)
    /\ unpack_from(OutFrame(0), 12) = u32(FLASH_BASE)

\* C2 (as claimed): in the emitted image the frame at position n has
\* block_index = n, whatever indices the input declared.
C2_IndexIsPosition ==
    pc = "done" =>
        \A n \in 0..(OutBlocks - 1) : unpack_from(OutFrame(n), 20) = u32(n)

\* C3: in the emitted image every frame, original or appended, has block_count
\* equal to the number of frames of the output, k + m, whatever block_count
\* the input frames declared.
C3_CountIsLength ==
    pc = "done" =>
        \A n \in 0..(InBlocks + USER_SCRIPT_SIZE \div BLOCK_SIZE - 1) :
            /\ (n + 1) * 512 <= Len(output_file)
            /\ unpack_from(OutFrame(n), 24)
                   = u32(InBlocks + USER_SCRIPT_SIZE \div BLOCK_SIZE)

\* an input frame declaring the stale block_count 100 leaves with k + 64
C3_Witness ==
    /\ pc = "done"
    /\ InBlocks = MaxBlocks
    /\ unpack_from(InFrame(0), 24) = u32(StaleCount)
    /\ OutBlocks = MaxBlocks + 64
    /\ unpack_from(OutFrame(0), 24) = u32(MaxBlocks + 64)
    /\ unpack_from(OutFrame(OutBlocks - 1), 24) = u32(MaxBlocks + 64)

\* C4 (as claimed): an input whose length is not a positive multiple of 512
\* (a dangling partial frame, or no frame at all) is rejected: no run on it
\* completes with an emitted image.
C4_TruncatedRejected ==
    pc = "done" => (Len(input_file) % 512 = 0 /\ Len(input_file) > 0)

HasBadMagic(frame) ==
    \/ unpack_from(frame, 0) # UF2_MAGIC_START0
    \/ unpack_from(frame, 4) # UF2_MAGIC_START1
    \/ unpack_from(frame, 508) # UF2_MAGIC_END

\* C5 (as claimed): an input holding a frame with a wrong magic word is
\* rejected: no run on it completes, so no such frame reaches the output.
C5_InvalidMagicRejected ==
    pc = "done" =>
        /\ \A n \in 0..(InBlocks - 1) : ~HasBadMagic(InFrame(n))
        /\ \A n \in 0..(OutBlocks - 1) : ~HasBadMagic(OutFrame(n))

\* C6: the appended erase blocks are exactly 64 = 0x4000 / 256 frames; the
\* n-th has target address 0x101FC000 + 256 n (ascending, contiguous, ending
\* below 0x10200000), payload size 256, flag bit 0x2000 set and 256 payload
\* bytes 0xFF.
C6_RangeCoverage ==
    pc = "done" =>
        /\ OutBlocks - InBlocks = 64
        /\ \A n \in 0..63 :
              LET f == OutFrame(InBlocks + n) IN
              /\ unpack_from(f, 12) = u32(270516224 + 256 * n)
              /\ 270516224 + 256 * n + 256 <= 270532608
              /\ unpack_from(f, 16) = u32(256)
              /\ (unpack_from(f, 8)[2] \div 8192) % 2 = 1
              /\ \A j \in 33..288 : f[j] = 255
        /\ unpack_from(OutFrame(InBlocks + 63), 12) = u32(270532608 - 256)

C6_Witness ==
    /\ pc = "done"
    /\ InBlocks = 1
    /\ OutBlocks = 65
    /\ unpack_from(OutFrame(1), 12) = u32(270516224)
    /\ OutFrame(64)[288] = 255

\* C7 (as claimed): when the last input frame carries family F with the
\* family-present flag set, every appended erase block carries family F.
C7_FamilyFromLastBlock ==
    (pc = "done" /\ InBlocks > 0
        /\ (unpack_from(InFrame(InBlocks - 1), 8)[2] \div 8192) % 2 = 1)
    => \A n \in InBlocks..(OutBlocks - 1) :
          unpack_from(OutFrame(n), 28) = unpack_from(InFrame(InBlocks - 1), 28)

\* C8 (as claimed): a run that ends in a failure leaves the output path as it
\* was before the run, or holding the complete extended image.
C8_NoPartialOutput ==
    pc \in {"failed", "usage"} =>
        \/ output_file = OldOutput
        \/ Len(output_file) = 512 * (InBlocks + USER_SCRIPT_SIZE \div BLOCK_SIZE)

(***************************************************************************)
(* Claim about raw_serial.py, checked under SerialSpec                     *)
(***************************************************************************)
ReaderStarted == rpc # "unstarted"
ReaderTerminated == rpc \in {"done", "killed"}

C9_Safe ==
    /\ (ReaderStarted /\ ~ser_open) => stop_event
    /\ read_error # "closed"
    /\ (ReaderStarted /\ mpc = "returned") => (~ser_open /\ stop_event)

\* C9: once the reader thread has been started, the port is closed only after
\* the stop event was set; a read error caused by that close is never printed
\* as "Read error"; the port is closed when main returns; and once the stop
\* event is set the reader thread terminates.
C9_Shutdown ==
    /\ [](C9_Safe)
    /\ ((ReaderStarted /\ stop_event) ~> ReaderTerminated)

\* the reader ran into the closed port after the stop event and kept silent
C9_Witness ==
    /\ mpc = "returned"
    /\ stop_event
    /\ ~ser_open
    /\ rpc = "done"
    /\ err_cause = "closed"
    /\ read_error = "none"

(***************************************************************************)
(* Claim about lua2header.py, checked under LuaSpec                        *)
(***************************************************************************)
\* the candidates before position n all ran and failed in a way the loop catches
AllFailedBefore(n) == \A h \in 1..(n - 1) : luac_behaviour[h] \in CaughtBehaviours

\* C10: the candidates are tried in priority order (host_luac, then the build
\* luac); the function returns the output of the first one that runs
\* successfully and tries none after it; it returns the Lua source verbatim
\* only when every candidate is missing or fails; and whenever it returns or
\* raises, every temporary .lc file it created has been deleted.
C10_FallbackOrder ==
    /\ tried = SubSeq(<<"host_luac", "build_luac">>, 1, Len(tried))
    /\ lpc \in {"returned", "raised"} =>
          (tmp_files = {} /\ tmp_created = Len(tried))
    /\ lpc = "returned" =>
          \/ \E n \in 1..2 :
                /\ luac_behaviour[n] = "ok"
                /\ AllFailedBefore(n)
                /\ Len(tried) = n
                /\ result = Bytecode(n, lua_source)
          \/ /\ AllFailedBefore(3)
             /\ Len(tried) = 2
             /\ result = lua_source

\* the first candidate is missing, the second compiles: its output is returned
C10_Witness ==
    /\ lpc = "returned"
    /\ luac_behaviour = <<"missing", "ok">>
    /\ tried = <<"host_luac", "build_luac">>
    /\ result = Bytecode(2, lua_source)
    /\ Len(lua_source) = MaxSrcLen
    /\ tmp_created = 2
    /\ tmp_files = {}

====
